---------------------------- MODULE Spec2Model ----------------------------
(***************************************************************************)
(* A model of harmony-machine (src/src/main.rs): the rational intervals,  *)
(* the decaying memory, the two judges, the single-substitution search    *)
(* step_notes and the evolution loop of output_pcm.                        *)
(*                                                                         *)
(* Numbers.  A Frac is the pair <<a, b>>.  An f64 is modelled as a         *)
(* fixed-point decimal: the integer v stands for v / Unit.  Sums and       *)
(* products are exact, quotients round toward zero, and exp is computed    *)
(* to within one Unit (ExpNeg below).  A reference computation in f64      *)
(* arithmetic returns the same chords as this model over the first twelve  *)
(* windows of output_pcm and on every chord and memory SpecStep draws.     *)
(*                                                                         *)
(* The synthesis half of output_pcm (sine_waves, linear_envelope, the      *)
(* write to stdout, the sample index i) reads notes and j and writes no    *)
(* state of the program; it is left out.                                   *)
(***************************************************************************)
EXTENDS Integers, Sequences, FiniteSets

VARIABLES
    notes,      \* output_pcm: the current chord, a sequence of Frac
    memory,     \* output_pcm: the Memory, a function Frac -> familiarity
    j,          \* output_pcm: samples emitted in the current window
    windows,    \* output_pcm: window boundaries passed so far
    ops,        \* forget / remember calls made so far
    pc,         \* where the driver stands, or the last operation it made
    arg,        \* the argument of the last call of the function under test
    ret,        \* what that call returned
    prev,       \* the memory before the last forget / remember
    inserted    \* every Frac ever handed to remember

vars == <<notes, memory, j, windows, ops, pc, arg, ret, prev, inserted>>

-----------------------------------------------------------------------------
(* Bounds of the model                                                     *)

MaxWindows == 3

MaxChordLen == 2

MaxOps == 4

MaxNum == 12

MaxK == 3

-----------------------------------------------------------------------------
(* Numbers                                                                 *)

\* the f64 1.0
Unit == 10000

\* the resolution ExpFrac works in
ExpScale == 10 * Unit

\* the value a panicking call yields
Panic == <<"panic">>

Max(x, y) == IF x >= y THEN x ELSE y

Min(x, y) == IF x <= y THEN x ELSE y

Abs(x) == IF x < 0 THEN 0 - x ELSE x

\* Unit * e^(-q) for q = 0, 1, ..., 10, rounded
ExpTable == <<10000, 3679, 1353, 498, 183, 67, 25, 9, 3, 1, 0>>

\* ExpScale * e^(-r / Unit) for 0 <= r < Unit: the Taylor polynomial of
\* degree 8 in Horner form, each quotient rounded to nearest
RECURSIVE ExpHorner(_, _, _)
ExpHorner(r, k, h) ==
    IF k = 0 THEN h
    ELSE ExpHorner(r, k - 1,
                   ExpScale - ((r * h + (k * Unit) \div 2) \div (k * Unit)))

ExpFrac(r) == ExpHorner(r, 8, ExpScale)

\* 1 / x.exp() for x >= 0, in Units: e^(-x) = e^(-q) * e^(-r), x = q + r
ExpNeg(x) ==
    LET q == x \div Unit
        r == x % Unit
    IN  IF q >= Len(ExpTable) THEN 0
        ELSE (ExpTable[q + 1] * ExpFrac(r) + ExpScale \div 2) \div ExpScale

-----------------------------------------------------------------------------
(* Frac and simplify                                                       *)

Frac(a, b) == <<a, b>>

RECURSIVE gcd(_, _)
gcd(x, y) == IF y = 0 THEN x ELSE gcd(y, x % y)

\* a mutant of simplify: only the numerator is divided
simplify_numerator_only(f) ==
    LET d == gcd(f[1], f[2])
    IN  IF d = 0 THEN Panic ELSE Frac(f[1] \div d, f[2])

\* a/d and b/d panic (division by zero) when d = 0, that is when a = b = 0
simplify(f) ==
    LET d == gcd(f[1], f[2])
    IN  IF d = 0 THEN Panic ELSE Frac(f[1] \div d, f[2] \div d)

-----------------------------------------------------------------------------
(* Memory: forget and remember                                             *)

EmptyMemory == [n \in {} |-> 0]

\* memory.get(note).unwrap_or(&dflt)
get_or(m, note, dflt) == IF note \in DOMAIN m THEN m[note] ELSE dflt

\* memory.insert(note, val)
insert(m, note, val) ==
    [n \in DOMAIN m \cup {note} |-> IF n = note THEN val ELSE m[n]]

\* a mutant of forget: an entry that decays to less than 0.05 is dropped
forget_dropping(m) ==
    [n \in {k \in DOMAIN m : (m[k] * 3) \div 4 >= Unit \div 20}
        |-> (m[n] * 3) \div 4]

\* *val *= 0.75 on every entry; 0.75 is 3/4
forget(m) == [n \in DOMAIN m |-> (m[n] * 3) \div 4]

\* let increase = 0.1
increase == Unit \div 10

\* the body of remember's for loop, for one note
remember_note(note, m) ==
    LET val == IF note \in DOMAIN m THEN m[note] + increase ELSE increase
    IN  insert(m, note, val)

RECURSIVE remember_from(_, _, _)
remember_from(note_set, k, m) ==
    IF k > Len(note_set) THEN m
    ELSE remember_from(note_set, k + 1, remember_note(note_set[k], m))

\* a mutant of remember: every note reads the memory as it was before the
\* loop, so a note that occurs twice is incremented once
remember_stale(note_set, m) ==
    LET played == {note_set[k] : k \in 1..Len(note_set)}
    IN  [n \in DOMAIN m \cup played |->
            get_or(m, n, 0) + (IF n \in played THEN increase ELSE 0)]

remember(note_set, m) == remember_from(note_set, 1, m)

-----------------------------------------------------------------------------
(* The judges                                                              *)

\* the body of judge_harmony's inner loop: familiarity * a3 * b3
harmony_term(n1, n2, familiarity) ==
    LET f3 == simplify(Frac(n1[1] * n2[2], n2[1] * n1[2]))
    IN  familiarity * f3[1] * f3[2]

\* the inner loop of judge_harmony, over the entries `keys` of the memory
RECURSIVE harmony_over(_, _, _)
harmony_over(n1, keys, m) ==
    IF keys = {} THEN 0
    ELSE LET n2 == CHOOSE n \in keys : TRUE
         IN  harmony_term(n1, n2, m[n2]) + harmony_over(n1, keys \ {n2}, m)

\* the outer loop of judge_harmony, from note k on
RECURSIVE harmony_sum(_, _, _)
harmony_sum(noteset, k, m) ==
    IF k > Len(noteset) THEN 0
    ELSE harmony_over(noteset[k], DOMAIN m, m) + harmony_sum(noteset, k + 1, m)

\* x.max(0).min(1)
clamp(x) == Min(Max(x, 0), Unit)

\* With iterations = 0 the average is 0.0/0.0 = NaN, which runs through exp
\* and the subtraction, and NaN.max(0.0) is 0.0.
judge_harmony(noteset, m) ==
    LET iterations == Len(noteset) * Cardinality(DOMAIN m)
    IN  IF iterations = 0 THEN 0
        ELSE LET avg_harmony == harmony_sum(noteset, 1, m) \div iterations
             IN  clamp(Unit - ExpNeg(avg_harmony \div 5))

RECURSIVE familiarity_sum(_, _, _)
familiarity_sum(noteset, k, m) ==
    IF k > Len(noteset) THEN 0
    ELSE get_or(m, noteset[k], 0) + familiarity_sum(noteset, k + 1, m)

target_familiarity == Unit \div 10

judge_novelty(noteset, m) ==
    IF Len(noteset) < 1 THEN Panic
    ELSE LET avg_familiarity == familiarity_sum(noteset, 1, m) \div Len(noteset)
             disparity == Abs(target_familiarity - avg_familiarity)
         IN  clamp(Unit - ExpNeg(disparity))

judge(noteset, m) == (judge_harmony(noteset, m) + judge_novelty(noteset, m)) \div 2

-----------------------------------------------------------------------------
(* step_notes                                                              *)

\* 1..12 is 1, ..., 11
Candidates == 1..11

\* note_set.contains(&possibility)
contains(note_set, possibility) ==
    \E k \in 1..Len(note_set) : note_set[k] = possibility

\* a mutant of note_set2: the candidate takes the place of note_set[i]
note_set2_in_place(note_set, i, possibility) ==
    [k \in 1..Len(note_set) |-> IF k = i + 1 THEN possibility ELSE note_set[k]]

\* note_set[0..i] ++ note_set[i+1..len] ++ [possibility], i counted from 0
note_set2(note_set, i, possibility) ==
    SubSeq(note_set, 1, i) \o SubSeq(note_set, i + 2, Len(note_set))
        \o <<possibility>>

\* a mutant of skip: no candidate is skipped
skip_never(note_set, possibility) == FALSE

\* if note_set.contains(&possibility) { continue; }
skip(note_set, possibility) == contains(note_set, possibility)

\* a mutant of improves: a trial that ties with the best replaces it
improves_or_ties(score, best_score) == score <= best_score

\* if score < best_score
improves(score, best_score) == score < best_score

\* acc is the pair of locals [best, best_score].  Each loop tests `entered'
\* on entry, which makes TLC evaluate the locals at every iteration, as the
\* program does, instead of nesting one unevaluated update per iteration.
entered(acc) == acc.best_score >= 0

\* for b in 1..12, with the loop's body
RECURSIVE step_b(_, _, _, _, _, _)
step_b(note_set, m, i, a, b, acc) ==
    IF entered(acc) /\ b \in Candidates
    THEN LET possibility == simplify(Frac(a, b))
         IN  IF skip(note_set, possibility)
             THEN step_b(note_set, m, i, a, b + 1, acc)
             ELSE LET trial == note_set2(note_set, i, possibility)
                      score == judge(trial, m)
                  IN  IF improves(score, acc.best_score)
                      THEN step_b(note_set, m, i, a, b + 1,
                                  [best |-> trial, best_score |-> score])
                      ELSE step_b(note_set, m, i, a, b + 1, acc)
    ELSE acc

\* for a in 1..12
RECURSIVE step_a(_, _, _, _, _)
step_a(note_set, m, i, a, acc) ==
    IF entered(acc) /\ a \in Candidates
    THEN step_a(note_set, m, i, a + 1, step_b(note_set, m, i, a, 1, acc))
    ELSE acc

\* for i in 0..note_set.len()
RECURSIVE step_i(_, _, _, _)
step_i(note_set, m, i, acc) ==
    IF entered(acc) /\ i < Len(note_set)
    THEN step_i(note_set, m, i + 1, step_a(note_set, m, i, 1, acc))
    ELSE acc

\* a mutant of initial_best_score: the largest score instead of 1.0
initial_best_score_max == 2 * Unit

\* let mut best_score = 1_f64
initial_best_score == Unit

step_notes(note_set, m) ==
    step_i(note_set, m, 0,
           [best |-> note_set, best_score |-> initial_best_score]).best

-----------------------------------------------------------------------------
(* output_pcm: the evolution loop                                          *)

PCM_HZ == 44100

STEPS_PER_SEC == 4

\* vec![Frac(1, 2), Frac(1, 1), Frac(1, 3), Frac(1, 5), Frac(1, 7)]
Seed == <<Frac(1, 2), Frac(1, 1), Frac(1, 3), Frac(1, 5), Frac(1, 7)>>

\* a mutant of window_boundary: the reinforcement runs before the search,
\* on the chord that is about to be replaced
window_boundary_remember_first(ns, m) ==
    LET reinforced == remember(ns, forget(m))
    IN  [notes |-> step_notes(ns, reinforced), memory |-> reinforced]

\* a mutant of window_boundary: the chord that was searched is remembered
window_boundary_old_chord(ns, m) ==
    LET decayed == forget(m)
    IN  [notes |-> step_notes(ns, decayed), memory |-> remember(ns, decayed)]

\* forget(&mut memory); notes = step_notes(&notes, &memory);
\* remember(&notes, &mut memory);
window_boundary(ns, m) ==
    LET decayed == forget(m)
        next == step_notes(ns, decayed)
    IN  [notes |-> next, memory |-> remember(next, decayed)]

Init ==
    /\ notes = Seed
    /\ memory = EmptyMemory
    /\ j = 0
    /\ windows = 0
    /\ ops = 0
    /\ pc = "loop"
    /\ arg = <<>>
    /\ ret = <<>>
    /\ prev = EmptyMemory
    /\ inserted = {}

\* one iteration of the for loop in which j + 1 is not the window length
Sample ==
    /\ windows < MaxWindows
    /\ j + 1 # PCM_HZ \div STEPS_PER_SEC
    /\ j' = j + 1
    /\ UNCHANGED <<notes, memory, windows, ops, pc, arg, ret, prev, inserted>>

\* one iteration of the for loop in which j + 1 is the window length
Boundary ==
    /\ windows < MaxWindows
    /\ j + 1 = PCM_HZ \div STEPS_PER_SEC
    /\ j' = 0
    /\ LET after == window_boundary(notes, memory)
       IN  /\ notes' = after.notes
           /\ memory' = after.memory
    /\ windows' = windows + 1
    /\ UNCHANGED <<ops, pc, arg, ret, prev, inserted>>

Next == Sample \/ Boundary

Spec == Init /\ [][Next]_vars

-----------------------------------------------------------------------------
(* step_notes on its own: one call on a chord and a memory                 *)

Pool == {Frac(1, 1), Frac(1, 2), Frac(2, 1), Frac(3, 2)}

\* the chords with no repeated interval, of length 0 .. MaxChordLen
Chords ==
    UNION {{c \in [1..n -> Pool] : \A p, q \in 1..n : p # q => c[p] # c[q]}
           : n \in 0..MaxChordLen}

\* familiarities: 0.075 and 0.1 (a decayed and a fresh entry), and 250.0,
\* under which both judges reach 1.0
Levels == {750, 1000, 2500000}

MemoryKeys == {Frac(1, 1), Frac(2, 1)}

Memories == UNION {[K -> Levels] : K \in SUBSET MemoryKeys}

InitStep ==
    /\ notes \in Chords
    /\ memory \in Memories
    /\ j = 0
    /\ windows = 0
    /\ ops = 0
    /\ pc = "call"
    /\ arg = <<>>
    /\ ret = <<>>
    /\ prev = EmptyMemory
    /\ inserted = {}

CallStep ==
    /\ pc = "call"
    /\ ret' = step_notes(notes, memory)
    /\ pc' = "stepped"
    /\ UNCHANGED <<notes, memory, j, windows, ops, arg, prev, inserted>>

NextStep == CallStep

SpecStep == InitStep /\ [][NextStep]_vars

-----------------------------------------------------------------------------
(* forget and remember on their own, from the empty memory                 *)

MemoryPool == {Frac(1, 1), Frac(3, 2)}

\* the chords handed to remember: length 1 .. MaxChordLen, repeats allowed
MemoryChords == UNION {[1..n -> MemoryPool] : n \in 1..MaxChordLen}

InitMem ==
    /\ notes = <<>>
    /\ memory = EmptyMemory
    /\ j = 0
    /\ windows = 0
    /\ ops = 0
    /\ pc = "new"
    /\ arg = <<>>
    /\ ret = <<>>
    /\ prev = EmptyMemory
    /\ inserted = {}

Forget ==
    /\ ops < MaxOps
    /\ prev' = memory
    /\ memory' = forget(memory)
    /\ arg' = <<>>
    /\ pc' = "forget"
    /\ ops' = ops + 1
    /\ UNCHANGED <<notes, j, windows, ret, inserted>>

Remember ==
    /\ ops < MaxOps
    /\ \E chord \in MemoryChords :
          /\ prev' = memory
          /\ memory' = remember(chord, memory)
          /\ arg' = chord
          /\ inserted' = inserted \cup {chord[k] : k \in 1..Len(chord)}
    /\ pc' = "remember"
    /\ ops' = ops + 1
    /\ UNCHANGED <<notes, j, windows, ret>>

NextMem == Forget \/ Remember

SpecMem == InitMem /\ [][NextMem]_vars

-----------------------------------------------------------------------------
(* simplify on its own: one Frac, canonicalized, canonicalized again, and  *)
(* canonicalized after scaling by k                                        *)

InitSimplify ==
    /\ notes = <<>>
    /\ memory = EmptyMemory
    /\ j = 0
    /\ windows = 0
    /\ ops = 0
    /\ pc = "call"
    /\ arg \in {<<a, b, k>> : a \in 0..MaxNum, b \in 0..MaxNum, k \in 1..MaxK}
    /\ ret = <<>>
    /\ prev = EmptyMemory
    /\ inserted = {}

CallSimplify ==
    /\ pc = "call"
    /\ LET once == simplify(Frac(arg[1], arg[2]))
       IN  ret' = [once |-> once,
                   twice |-> IF once = Panic THEN Panic ELSE simplify(once),
                   scaled |-> simplify(Frac(arg[1] * arg[3], arg[2] * arg[3]))]
    /\ pc' = "simplified"
    /\ UNCHANGED <<notes, memory, j, windows, ops, arg, prev, inserted>>

NextSimplify == CallSimplify

SpecSimplify == InitSimplify /\ [][NextSimplify]_vars

-----------------------------------------------------------------------------
(* What the claims speak of                                                *)

\* the intervals of a chord
Intervals(chord) == {chord[k] : k \in 1..Len(chord)}

\* how often an interval occurs in a chord
Occurrences(chord, n) == Cardinality({k \in 1..Len(chord) : chord[k] = n})

NoRepeats(chord) ==
    \A p, q \in 1..Len(chord) : p # q => chord[p] # chord[q]

\* no common factor greater than 1
Reduced(f) ==
    \A c \in 2..Max(f[1], f[2]) : ~(f[1] % c = 0 /\ f[2] % c = 0)

\* the substitutions step_notes explores on a chord: position i (from 0),
\* numerator a and denominator b, the candidate not in the chord
Explored(chord) ==
    {t \in (0..(Len(chord) - 1)) \X Candidates \X Candidates :
        simplify(Frac(t[2], t[3])) \notin Intervals(chord)}

\* the trial chord step_notes forms for an explored substitution
TrialOf(chord, t) == note_set2(chord, t[1], simplify(Frac(t[2], t[3])))

\* every explored substitution with the score of its trial, <<score, t>>
Scored(chord, m) ==
    {<<judge(TrialOf(chord, t), m), t>> : t \in Explored(chord)}

Least(S) == CHOOSE x \in S : \A y \in S : x <= y

\* the least score among scored substitutions
LeastScore(scored) == Least({p[1] : p \in scored})

\* the substitutions of least score
BestTrials(scored) ==
    LET least == LeastScore(scored)
    IN  {p[2] : p \in {q \in scored : q[1] = least}}

\* among the substitutions W, the one met first: least position, then
\* least numerator, then least denominator
First(W) ==
    LET i == Least({t[1] : t \in W})
        a == Least({t[2] : t \in {u \in W : u[1] = i}})
        b == Least({t[3] : t \in {u \in W : u[1] = i /\ u[2] = a}})
    IN  <<i, a, b>>

-----------------------------------------------------------------------------
(* Claims about step_notes, under SpecStep                                 *)

\* C1: for a chord with no repeated interval and any memory, step_notes
\* returns a chord of the same length with no interval twice.
C1_SameLengthNoRepeats ==
    pc = "stepped" => Len(ret) = Len(notes) /\ NoRepeats(ret)

\* C1's case: a chord of two intervals was stepped to another chord
C1_Witness ==
    pc = "stepped" /\ Len(notes) >= 2 /\ NoRepeats(notes) /\ ret # notes

\* C2 as stated: if no explored trial scores strictly below the original
\* chord, step_notes returns the original chord.
C2_OriginalKeptUnlessImproved ==
    (/\ pc = "stepped"
     /\ Len(notes) > 0
     /\ LET original == judge(notes, memory)
        IN  \A p \in Scored(notes, memory) : p[1] >= original)
    => ret = notes

\* C2 amended: if no explored trial scores strictly below 1.0, the value
\* best_score starts from, step_notes returns the original chord.
C2_OriginalKeptUnlessBelowOne ==
    (/\ pc = "stepped"
     /\ \A p \in Scored(notes, memory) : p[1] >= Unit)
    => ret = notes

\* C2's case: trials were explored, every one of them scored 1.0, and the
\* original chord came back
C2_Witness ==
    /\ pc = "stepped"
    /\ Explored(notes) # {}
    /\ \A p \in Scored(notes, memory) : p[1] >= Unit
    /\ ret = notes

\* C3 as stated: every trial chord is the original with the candidate at
\* index i and every other index as it was, so the returned chord differs
\* from the input at no more than one index.
C3_TrialReplacesInPlace ==
    pc = "stepped" =>
        /\ \A t \in Explored(notes) :
              TrialOf(notes, t) =
                  [notes EXCEPT ![t[1] + 1] = simplify(Frac(t[2], t[3]))]
        /\ Len(ret) = Len(notes)
        /\ Cardinality({k \in 1..Len(notes) : ret[k] # notes[k]}) <= 1

\* C3 amended: every trial chord is the original with index i removed, the
\* intervals after i each one index lower, and the candidate at the last
\* index; so the returned chord is the input chord, or the input chord with
\* one interval removed and an interval not in the input appended.
C3_TrialRemovesAndAppends ==
    pc = "stepped" =>
        /\ \A t \in Explored(notes) :
              LET trial == TrialOf(notes, t)
                  i == t[1] + 1
              IN  /\ Len(trial) = Len(notes)
                  /\ \A k \in 1..(i - 1) : trial[k] = notes[k]
                  /\ \A k \in i..(Len(notes) - 1) : trial[k] = notes[k + 1]
                  /\ trial[Len(notes)] = simplify(Frac(t[2], t[3]))
        /\ \/ ret = notes
           \/ \E i \in 1..Len(notes) :
                 /\ Len(ret) = Len(notes)
                 /\ \A k \in 1..(i - 1) : ret[k] = notes[k]
                 /\ \A k \in i..(Len(notes) - 1) : ret[k] = notes[k + 1]
                 /\ ret[Len(notes)] \notin Intervals(notes)

\* C3's case: the first interval of a chord of two was removed, so the
\* second interval moved to the first index
C3_Witness ==
    /\ pc = "stepped"
    /\ Len(notes) = 2
    /\ ret[1] = notes[2]
    /\ ret[2] \notin Intervals(notes)

\* C8: when some trial scores below 1.0, step_notes returns the trial of
\* least score that is met first in the order position, numerator,
\* denominator; a later trial of equal score does not replace it.
C8_FirstOfLeastScoreWins ==
    (pc = "stepped" /\ Explored(notes) # {}) =>
        LET scored == Scored(notes, memory)
        IN  LeastScore(scored) < Unit =>
                ret = TrialOf(notes, First(BestTrials(scored)))

\* C8's case: with a memory that is not empty, trials at two positions tie
\* for the least score, and the one at the earlier position was returned
C8_Witness ==
    /\ pc = "stepped"
    /\ memory # EmptyMemory
    /\ Explored(notes) # {}
    /\ LET scored == Scored(notes, memory)
           W == BestTrials(scored)
       IN  /\ LeastScore(scored) < Unit
           /\ \E t \in W : t[1] # First(W)[1]
           /\ ret = TrialOf(notes, First(W))

-----------------------------------------------------------------------------
(* Claims about the evolution loop, under Spec                             *)

\* C4: at a window boundary, in one step, the memory is decayed, the search
\* runs on the current chord and the decayed memory, and the chord it
\* returns is remembered in the decayed memory and becomes the current
\* chord; between two boundaries neither the chord nor the memory changes.
C4_DecaySearchReinforce ==
    [][IF j + 1 = PCM_HZ \div STEPS_PER_SEC
       THEN /\ notes' = step_notes(notes, forget(memory))
            /\ memory' = remember(notes', forget(memory))
            /\ j' = 0
       ELSE /\ notes' = notes
            /\ memory' = memory
            /\ j' = j + 1]_vars

\* C4's case: a boundary was passed with a memory that held entries: an
\* entry decayed and not reinforced stands beside a fresh one
C4_Witness ==
    /\ windows >= 2
    /\ j = 0
    /\ \E n \in DOMAIN memory : n \notin Intervals(notes) /\ memory[n] < increase
    /\ \E n \in Intervals(notes) : memory[n] = increase

\* C10: the current chord always has 5 distinct intervals, each reduced
\* with numerator and denominator in 1..11, and after the first boundary
\* each of them has a memory entry of at least 0.1.
C10_ChordShape ==
    /\ Len(notes) = 5
    /\ NoRepeats(notes)
    /\ \A k \in 1..Len(notes) :
          /\ notes[k][1] \in 1..11
          /\ notes[k][2] \in 1..11
          /\ Reduced(notes[k])
    /\ windows >= 1 =>
          \A k \in 1..Len(notes) :
              notes[k] \in DOMAIN memory /\ memory[notes[k]] >= Unit \div 10

\* C10's case: past the second boundary, in the middle of a window, on a
\* chord that is not the seed
C10_Witness ==
    windows >= 2 /\ j > 0 /\ notes # Seed /\ Intervals(notes) # Intervals(Seed)

-----------------------------------------------------------------------------
(* Claims about forget and remember, under SpecMem                         *)

\* C6: after any forget and remember calls from the empty memory, every
\* interval ever inserted has an entry, and every familiarity is >= 0.
C6_EntriesPersist ==
    /\ \A n \in inserted : n \in DOMAIN memory
    /\ \A n \in DOMAIN memory : memory[n] >= 0

\* C6's case: an entry was inserted and then decayed below the increment
C6_Witness ==
    /\ pc = "forget"
    /\ \E n \in inserted : n \in DOMAIN memory /\ memory[n] < increase

\* C7: remember adds 0.1 per occurrence: each interval's familiarity is
\* what it was (0 if absent) plus 0.1 times its occurrences in the chord,
\* and an interval not in the chord keeps its familiarity.
C7_IncrementPerOccurrence ==
    pc = "remember" =>
        /\ DOMAIN memory = DOMAIN prev \cup Intervals(arg)
        /\ \A n \in DOMAIN memory :
              memory[n] = get_or(prev, n, 0)
                            + (Unit \div 10) * Occurrences(arg, n)

\* C7's case: a chord with the same interval twice was remembered in a
\* memory that held that interval and another one
C7_Witness ==
    /\ pc = "remember"
    /\ \E n \in DOMAIN prev :
          /\ Occurrences(arg, n) = 2
          /\ memory[n] = prev[n] + 2 * (Unit \div 10)
    /\ \E n \in DOMAIN prev : Occurrences(arg, n) = 0

-----------------------------------------------------------------------------
(* Claims about simplify, under SpecSimplify                               *)

\* C5: canonicalizing an interval with denominator 0 fails for every
\* numerator, and simplify never returns an interval with denominator 0.
C5_ZeroDenominatorRejected ==
    pc = "simplified" =>
        /\ arg[2] = 0 => ret.once = Panic
        /\ ret.once # Panic => ret.once[2] # 0

\* C9: for positive a, b, k, simplify(simplify(a, b)) = simplify(a, b) and
\* simplify(a*k, b*k) = simplify(a, b), which is in lowest terms.
C9_IdempotentScaleInvariant ==
    (pc = "simplified" /\ arg[1] > 0 /\ arg[2] > 0) =>
        /\ ret.twice = ret.once
        /\ ret.scaled = ret.once
        /\ Reduced(ret.once)

\* C9's case: a fraction not in lowest terms, scaled by k > 1
C9_Witness ==
    /\ pc = "simplified"
    /\ arg[1] > 0 /\ arg[2] > 0 /\ arg[3] > 1
    /\ ret.once # Frac(arg[1], arg[2])
    /\ ret.once[1] > 1 /\ ret.once[2] > 1

=============================================================================
